---- MODULE Spec2Model ----
(***************************************************************************)
(* Screenshot Text Extractor: the Capture-and-Display Controller           *)
(* (app/main_app.py: ScreenshotApp, OCRWorker) and the OCR Adapter         *)
(* (app/ocr_utils.py: OCRProcessor).                                       *)
(*                                                                         *)
(* Text is a sequence of one-character strings, so that strip() and the    *)
(* joins act on characters.  The recognition engine, the display and the   *)
(* file system are collaborators: what they return is drawn from small     *)
(* sets.                                                                   *)
(***************************************************************************)
EXTENDS Integers, Sequences, FiniteSets, TLC

(***************************************************************************)
(* Bounds of the model.                                                    *)
(***************************************************************************)
\* Result objects plus detected lines in one predict() result.
MaxResultSize == 5
\* OCRWorker objects that can exist at once (the code creates one per scan).
MaxWorkers == 2
\* Calls of set_language and on_language_change in a run of the adapter alone.
MaxLangCalls == 3

(***************************************************************************)
(* OCR Adapter: text helpers.                                              *)
(***************************************************************************)
NL == "\n"

Whitespace == {" ", NL}

RECURSIVE lstrip(_)
lstrip(s) == IF s # <<>> /\ Head(s) \in Whitespace THEN lstrip(Tail(s)) ELSE s

RECURSIVE rstrip(_)
rstrip(s) ==
    IF s # <<>> /\ s[Len(s)] \in Whitespace
    THEN rstrip(SubSeq(s, 1, Len(s) - 1))
    ELSE s

\* str.strip()
strip(s) == rstrip(lstrip(s))

\* sep.join(parts)
RECURSIVE join(_, _)
join(sep, parts) ==
    IF parts = <<>> THEN <<>>
    ELSE IF Len(parts) = 1 THEN parts[1]
    ELSE parts[1] \o sep \o join(sep, Tail(parts))

\* "\n".join(...) inside one result object
LINE_SEP == <<NL>>

\* "\n---\n".join(...) between result objects
REGION_SEP == <<NL, "-", "-", "-", NL>>

\* Optional[str]
None == [some |-> FALSE, text |-> <<>>]

Some(t) == [some |-> TRUE, text |-> t]

(***************************************************************************)
(* What predict() can return.  A result object is                          *)
(*   shape "json_raises"  : reading .json raises                           *)
(*   shape "no_json"      : no .json attribute, or .json is not a dict     *)
(*   shape "no_res"       : .json has no dict under 'res'                  *)
(*   shape "no_rec_texts" : .json['res'] has no list under 'rec_texts'     *)
(*   shape "rec_texts"    : .json['res']['rec_texts'] is the list `lines`  *)
(*   shape "list"         : the object is itself a list of line_info       *)
(* and a line is [wf, isStr, s]: wf says that a line_info of a list is     *)
(* [box, (text, confidence)], isStr that the text is a str, s its value.   *)
(***************************************************************************)
Fragments == {<<>>, <<" ">>, <<"a">>, <<"b">>, <<" ", "a">>}

StrLine(f) == [wf |-> TRUE, isStr |-> TRUE, s |-> f]

NonStrLine == [wf |-> TRUE, isStr |-> FALSE, s |-> <<>>]

MalformedLine == [wf |-> FALSE, isStr |-> FALSE, s |-> <<>>]

RecTextValues == {StrLine(f) : f \in Fragments} \cup {NonStrLine}

LineInfoValues == RecTextValues \cup {MalformedLine}

LinelessShapes == {"json_raises", "no_json", "no_res", "no_rec_texts"}

ResultObject(shape, lines) == [shape |-> shape, lines |-> lines]

Shapes == LinelessShapes \cup {"rec_texts", "list"}

\* The values a line of a result object of this shape can take.
LineValues(shape) ==
    IF shape = "rec_texts" THEN RecTextValues
    ELSE IF shape = "list" THEN LineInfoValues
    ELSE {}

\* One for each result object and one for each of its lines.
RECURSIVE ResultSize(_)
ResultSize(results) ==
    IF results = <<>> THEN 0
    ELSE 1 + Len(Head(results).lines) + ResultSize(Tail(results))

\* predict() raises, returns None, or returns a list of result objects.
PredictRaises == [kind |-> "raises", results |-> <<>>]

PredictNone == [kind |-> "none", results |-> <<>>]

PredictList(rs) == [kind |-> "list", results |-> rs]

(***************************************************************************)
(* OCRProcessor.process_image                                              *)
(***************************************************************************)
\* A filter that forgets strip(): a fragment of blanks is kept.
IsMeaningfulWithoutStrip(line) == line.isStr /\ line.s # <<>>

\* isinstance(text, str) and text.strip()
IsMeaningful(line) == line.isStr /\ strip(line.s) # <<>>

\* Lines 70-86: the structured strategy, .json['res']['rec_texts'].
MeaningfulTexts(res_obj) ==
    LET kept == SelectSeq(res_obj.lines, IsMeaningful)
    IN  [i \in 1..Len(kept) |-> kept[i].s]

JsonText(res_obj) ==
    IF res_obj.shape = "rec_texts" /\ MeaningfulTexts(res_obj) # <<>>
    THEN Some(join(LINE_SEP, MeaningfulTexts(res_obj)))
    ELSE None

\* Lines 90-102: the legacy strategy, a list of [box, (text, confidence)].
IsLegacyLine(line) == line.wf /\ line.isStr /\ strip(line.s) # <<>>

LegacyTexts(res_obj) ==
    LET kept == SelectSeq(res_obj.lines, IsLegacyLine)
    IN  [i \in 1..Len(kept) |-> strip(kept[i].s)]

ListText(res_obj) ==
    IF LegacyTexts(res_obj) # <<>>
    THEN Some(join(LINE_SEP, LegacyTexts(res_obj)))
    ELSE None

\* item_text of one result object, lines 67-102.
ItemText(res_obj) ==
    IF JsonText(res_obj).some THEN JsonText(res_obj)
    ELSE IF res_obj.shape = "list" THEN ListText(res_obj)
    ELSE None

\* all_extracted_texts, lines 63-107.
AllExtractedTexts(results) ==
    LET items == [i \in 1..Len(results) |-> ItemText(results[i])]
        HasText(it) == it.some
        kept == SelectSeq(items, HasText)
    IN  [i \in 1..Len(kept) |-> kept[i].text]

\* A join of the result objects with the separator of the lines.
JoinRegionsWithLineSep(texts) ==
    IF texts # <<>> THEN Some(join(LINE_SEP, texts)) ELSE None

\* Lines 109-113.
JoinRegions(texts) ==
    IF texts # <<>> THEN Some(join(REGION_SEP, texts)) ELSE None

\* What process_image does with an exception of predict(): lines 115-117.
Returned(opt) == [raised |-> FALSE, value |-> opt]

Raised == [raised |-> TRUE, value |-> None]

\* No handler around predict(): its exception leaves process_image.
OnPredictExceptionPropagates == Raised

OnPredictException == Returned(None)

\* process_image(image_path): instance_ok is `self.ocr_instance` being set,
\* exists is os.path.exists(image_path), prediction what predict() does.
process_image(instance_ok, exists, prediction) ==
    IF ~instance_ok THEN Returned(None)
    ELSE IF ~exists THEN Returned(None)
    ELSE IF prediction.kind = "raises" THEN OnPredictException
    ELSE IF prediction.kind = "none" \/ prediction.results = <<>> THEN Returned(None)
    ELSE Returned(JoinRegions(AllExtractedTexts(prediction.results)))

(***************************************************************************)
(* OCRProcessor: the engine instance and its language.                     *)
(***************************************************************************)
\* PaddleOCR(lang=...), lines 19-26: the instance knows its language.
PaddleOCR(lang) == [lang |-> lang]

\* set_language without the test of line 32: the engine is always rebuilt.
set_language_always_rebuilding(proc, lang, built) ==
    [current_lang |-> lang,
     ocr_instance |-> IF built THEN PaddleOCR(lang) ELSE proc.ocr_instance,
     raised |-> ~built,
     constructed |-> TRUE]

\* set_language(lang), lines 28-35.  built says whether PaddleOCR(...) returns
\* or raises; current_lang is assigned before the engine is built.
\* constructed says whether PaddleOCR(...) was called.
set_language(proc, lang, built) ==
    IF lang # proc.current_lang
    THEN [current_lang |-> lang,
          ocr_instance |-> IF built THEN PaddleOCR(lang) ELSE proc.ocr_instance,
          raised |-> ~built,
          constructed |-> TRUE]
    ELSE [current_lang |-> proc.current_lang,
          ocr_instance |-> proc.ocr_instance,
          raised |-> FALSE,
          constructed |-> FALSE]

(***************************************************************************)
(* main_app.py: constants.                                                 *)
(***************************************************************************)
AVAILABLE_LANGUAGES ==
    ("English" :> "en") @@ ("Chinese (Simplified)" :> "ch") @@ ("French" :> "fr")
    @@ ("German" :> "de") @@ ("Japanese" :> "japan") @@ ("Korean" :> "korean")

DEFAULT_LANGUAGE == "English"

\* The languages the user picks among in the runs of the model.
LanguageChoices == {"English", "Japanese", "French"}

DEFAULT_SCREENSHOT_PATH == "temp_screenshots/latest_screenshot.png"

\* A path that is None, a settings key that is not stored.
NoPath == "None"

Absent == "absent"

\* QByteArray of saveGeometry(): the window position; empty when not stored.
NoGeometry == <<>>

\* setGeometry(100, 100, 800, 600)
InitialPos == <<100, 100>>

\* Where the user can drag the window.
Positions == {InitialPos, <<300, 200>>}

\* QPoint(-10000, -10000)
OFF_SCREEN == <<-10000, -10000>>

\* What the text area shows: a message of the application or OCR text.
Msg(m) == [msg |-> m, text |-> <<>>]

OcrText(t) == [msg |-> "ocr text", text |-> t]

MsgPlaceholder == Msg("")

MsgTaking == Msg("Taking screenshot...")

MsgNoScreen == Msg("Error: Could not get primary screen.")

MsgSaveFailed == Msg("Error: Failed to save screenshot")

MsgGrabFailed == Msg("Error taking screenshot")

MsgStartingOcr == Msg("Screenshot taken. Starting OCR...")

MsgAborted == Msg("Failed to take or save screenshot. OCR aborted.")

MsgBadPath == Msg("Error: Screenshot path is invalid or file does not exist for OCR.")

MsgNoText == Msg("No text could be extracted or an error occurred during OCR.")

MsgCritical == Msg("Critical error in OCR thread")

\* QLabel: setting the text clears the pixmap; setting a pixmap clears the text.
setText(t) == [text |-> t, pixmap |-> "none"]

setPixmap(p) == [text |-> "", pixmap |-> p]

\* display_screenshot_thumbnail(image_path), lines 182-198.
display_screenshot_thumbnail(exists) ==
    IF ~exists THEN setText("Screenshot file not found.") ELSE setPixmap("thumbnail")

WorkerIds == 1..MaxWorkers

\* No OCRWorker object.
NoWorker == 0

\* An OCRWorker: where its thread is, the engine language predict() runs with,
\* and how many of its result strings on_ocr_completed has received.
Unborn == [pc |-> "none", engine_lang |-> "", delivered |-> 0]

\* What predict() returns in the application's runs.
AppPredictions ==
    {PredictRaises,
     PredictList(<<ResultObject("rec_texts", <<StrLine(<<"a">>)>>)>>),
     PredictList(<<ResultObject("list", <<StrLine(<<" ">>)>>)>>)}

\* The persisted settings a first launch can find.
EmptySettings ==
    [geometry |-> NoGeometry, language |-> Absent, last_screenshot_path |-> Absent]

InitialSettings ==
    {[EmptySettings EXCEPT !.language = l] : l \in {Absent, "Japanese", "Klingon"}}

VARIABLES
    phase,                   \* "running", "closing" (close accepted), "closed"
    scanPc,                  \* where scan_screen_and_process waits in an event loop
    original_pos,            \* take_screenshot's local (InitialPos outside it)
    capture,                 \* how the last take_screenshot ended
    pos,                     \* self.pos()
    scan_button_enabled,
    text_area,
    screenshot_label,
    language_combo,          \* currentText()
    ocr_processor,           \* [current_lang, ocr_instance]
    current_screenshot_path,
    ocr_worker_thread,       \* a worker id or NoWorker
    workers,                 \* the OCRWorker threads
    queue,                   \* signals queued to the UI thread
    settings,                \* QSettings
    file_exists,             \* the file at DEFAULT_SCREENSHOT_PATH
    at_close                 \* what the window showed when closeEvent ran

app_vars ==
    <<phase, scanPc, original_pos, capture, pos, scan_button_enabled, text_area,
      screenshot_label, language_combo, ocr_processor, current_screenshot_path,
      ocr_worker_thread, workers, queue, settings, file_exists, at_close>>

NotClosed == [closed |-> FALSE, pos |-> InitialPos, language |-> DEFAULT_LANGUAGE,
              path |-> NoPath]

(***************************************************************************)
(* ScreenshotApp.__init__, init_ui, load_settings.                         *)
(***************************************************************************)
\* Lines 105-109 and 255-263: the language the combo box shows.
LoadedLanguage(s) ==
    IF s.language \in DOMAIN AVAILABLE_LANGUAGES THEN s.language ELSE DEFAULT_LANGUAGE

\* load_settings without lines 259-260 and 263: the processor keeps the
\* engine of the default language that __init__ built.
LoadedProcessorLeftAtDefault(s) ==
    [current_lang |-> AVAILABLE_LANGUAGES[DEFAULT_LANGUAGE],
     ocr_instance |-> PaddleOCR(AVAILABLE_LANGUAGES[DEFAULT_LANGUAGE])]

\* Lines 66 and 255-263: the processor after __init__ and load_settings.  A
\* launch in which PaddleOCR(...) raises ends before the window exists and
\* leaves no state of the application, so a launch builds its engines.
LoadedProcessor(s) ==
    LET p0 == [current_lang |-> AVAILABLE_LANGUAGES[DEFAULT_LANGUAGE],
               ocr_instance |-> PaddleOCR(AVAILABLE_LANGUAGES[DEFAULT_LANGUAGE])]
        p1 == set_language(p0, AVAILABLE_LANGUAGES[LoadedLanguage(s)], TRUE)
    IN  [current_lang |-> p1.current_lang, ocr_instance |-> p1.ocr_instance]

\* Lines 266-273: the thumbnail, or the label cleared.
LoadedLabel(s, exists) ==
    IF s.last_screenshot_path # Absent /\ exists
    THEN display_screenshot_thumbnail(exists)
    ELSE setPixmap("null")

\* Lines 62 and 250-252.
LoadedPos(s) == IF s.geometry # NoGeometry THEN s.geometry ELSE InitialPos

LoadedPath(s, exists) ==
    IF s.last_screenshot_path # Absent /\ exists THEN s.last_screenshot_path ELSE NoPath

VARIABLES pi_in, pi_out     \* one call of process_image: arguments, return

VARIABLE lang_call          \* the last call of set_language or on_language_change

ocr_vars == <<pi_in, pi_out, lang_call>>

vars == <<phase, scanPc, original_pos, capture, pos, scan_button_enabled, text_area,
          screenshot_label, language_combo, ocr_processor, current_screenshot_path,
          ocr_worker_thread, workers, queue, settings, file_exists, at_close,
          pi_in, pi_out, lang_call>>

NoCall == [exists |-> FALSE, prediction |-> PredictNone]

Pending == [done |-> FALSE, ret |-> Returned(None)]

\* No call of the adapter recorded yet.
NoLangCall ==
    [n |-> 0, op |-> "none", arg |-> "", built |-> TRUE,
     before |-> [current_lang |-> "", ocr_instance |-> PaddleOCR(""), language |-> ""],
     raised |-> FALSE, constructed |-> FALSE]

\* The state after ScreenshotApp() of a launch that finds the settings s.
Launched(s, exists) ==
    /\ phase = "running"
    /\ scanPc = "idle"
    /\ original_pos = InitialPos
    /\ capture = "none"
    /\ pos = LoadedPos(s)
    /\ scan_button_enabled = TRUE
    /\ text_area = MsgPlaceholder
    /\ screenshot_label = LoadedLabel(s, exists)
    /\ language_combo = LoadedLanguage(s)
    /\ ocr_processor = LoadedProcessor(s)
    /\ current_screenshot_path = LoadedPath(s, exists)
    /\ ocr_worker_thread = NoWorker
    /\ workers = [w \in WorkerIds |-> Unborn]
    /\ queue = <<>>
    /\ at_close = NotClosed

Init ==
    /\ settings \in InitialSettings
    /\ file_exists = FALSE
    /\ Launched(settings, file_exists)
    /\ pi_in = NoCall
    /\ pi_out = Pending
    /\ lang_call = NoLangCall

(***************************************************************************)
(* The UI thread.  A handler runs when the thread is in an event loop: the *)
(* main one (scanPc = "idle") or one that scan_screen_and_process and      *)
(* take_screenshot enter (processEvents(), QEventLoop.exec()).             *)
(***************************************************************************)
\* on_language_change that takes the default language for a name it does not
\* know, instead of the else branch of lines 135-136.
on_language_change_defaulting(name, built) ==
    LET code == IF name \in DOMAIN AVAILABLE_LANGUAGES
                THEN AVAILABLE_LANGUAGES[name]
                ELSE AVAILABLE_LANGUAGES[DEFAULT_LANGUAGE]
        r == set_language(ocr_processor, code, built)
    IN  /\ ocr_processor' = [current_lang |-> r.current_lang,
                             ocr_instance |-> r.ocr_instance]
        /\ settings' = IF r.raised THEN settings
                       ELSE [settings EXCEPT !.language = name]

\* Whether on_language_change(name) raises: only set_language can (line 132).
on_language_change_raises(name, built) ==
    /\ name \in DOMAIN AVAILABLE_LANGUAGES
    /\ set_language(ocr_processor, AVAILABLE_LANGUAGES[name], built).raised

\* on_language_change(lang_display_name), lines 129-136.
on_language_change(name, built) ==
    IF name \in DOMAIN AVAILABLE_LANGUAGES
    THEN LET r == set_language(ocr_processor, AVAILABLE_LANGUAGES[name], built)
         IN  /\ ocr_processor' = [current_lang |-> r.current_lang,
                                  ocr_instance |-> r.ocr_instance]
             /\ settings' = IF r.raised THEN settings
                            ELSE [settings EXCEPT !.language = name]
    ELSE UNCHANGED <<ocr_processor, settings>>

\* The user picks another language in the combo box: currentTextChanged.
LanguageChange ==
    /\ phase = "running"
    /\ \E name \in LanguageChoices \ {language_combo}, built \in BOOLEAN :
          /\ language_combo' = name
          /\ on_language_change(name, built)
    /\ UNCHANGED <<phase, scanPc, original_pos, capture, pos, scan_button_enabled,
                   text_area, screenshot_label, current_screenshot_path,
                   ocr_worker_thread, workers, queue, file_exists, at_close, ocr_vars>>

\* The user drags the window while no scan runs.
MoveWindow ==
    /\ phase = "running"
    /\ scanPc = "idle"
    /\ \E p \in Positions \ {pos} : pos' = p
    /\ UNCHANGED <<phase, scanPc, original_pos, capture, scan_button_enabled,
                   text_area, screenshot_label, language_combo, ocr_processor,
                   current_screenshot_path, ocr_worker_thread, workers, queue,
                   settings, file_exists, at_close, ocr_vars>>

\* The screenshot file is removed from outside.
DeleteFile ==
    /\ file_exists
    /\ file_exists' = FALSE
    /\ UNCHANGED <<phase, scanPc, original_pos, capture, pos, scan_button_enabled,
                   text_area, screenshot_label, language_combo, ocr_processor,
                   current_screenshot_path, ocr_worker_thread, workers, queue,
                   settings, at_close, ocr_vars>>

\* The else branch without its setEnabled(True).
ScanAbortsLeavingTriggerDisabled ==
    /\ text_area' = MsgAborted
    /\ screenshot_label' = setText("Screenshot failed.")
    /\ scan_button_enabled' = scan_button_enabled
    /\ scanPc' = "idle"

\* Lines 232-235: the else branch of scan_screen_and_process.
ScanAborts ==
    /\ text_area' = MsgAborted
    /\ screenshot_label' = setText("Screenshot failed.")
    /\ scan_button_enabled' = TRUE
    /\ scanPc' = "idle"

\* The click without setEnabled(False) of line 201.
ScanClickedLeavingTriggerEnabled ==
    /\ phase = "running"
    /\ scanPc = "idle"
    /\ scan_button_enabled
    /\ text_area' = MsgTaking
    /\ scanPc' = "pre"
    /\ capture' = "none"
    /\ UNCHANGED <<phase, original_pos, pos, screenshot_label, language_combo,
                   ocr_processor, current_screenshot_path, ocr_worker_thread,
                   workers, queue, settings, file_exists, at_close, ocr_vars,
                   scan_button_enabled>>

\* Lines 200-209: the click on the enabled button.
ScanClicked ==
    /\ phase = "running"
    /\ scanPc = "idle"
    /\ scan_button_enabled
    /\ scan_button_enabled' = FALSE
    /\ text_area' = MsgTaking
    /\ scanPc' = "pre"
    /\ capture' = "none"
    /\ UNCHANGED <<phase, original_pos, pos, screenshot_label, language_combo,
                   ocr_processor, current_screenshot_path, ocr_worker_thread,
                   workers, queue, settings, file_exists, at_close, ocr_vars>>

\* take_screenshot, lines 140-156: no primary screen, or the window leaves.
TakeScreenshotBegins ==
    /\ phase # "closed"
    /\ scanPc = "pre"
    /\ \E screen \in BOOLEAN :
          IF ~screen
          THEN /\ capture' = "no_screen"
               /\ ScanAborts
               /\ UNCHANGED <<original_pos, pos>>
          ELSE /\ original_pos' = pos
               /\ pos' = OFF_SCREEN
               /\ scanPc' = "moved"
               /\ UNCHANGED <<capture, text_area, screenshot_label,
                              scan_button_enabled>>
    /\ UNCHANGED <<phase, language_combo, ocr_processor, current_screenshot_path,
                   ocr_worker_thread, workers, queue, settings, file_exists,
                   at_close, ocr_vars>>

\* The window without the finally clause: an exception leaves it where it is.
RestoredPosUnlessException(outcome) ==
    IF outcome = "grab_raises" THEN pos ELSE original_pos

\* Lines 170-172: finally, self.move(original_pos).
RestoredPos(outcome) == original_pos

\* take_screenshot, lines 158-178: grab, save, and the finally clause.
TakeScreenshotGrabs ==
    /\ phase # "closed"
    /\ scanPc = "moved"
    /\ \E outcome \in {"ok", "grab_raises", "save_fails"} :
          /\ capture' = outcome
          /\ current_screenshot_path' =
                IF outcome = "ok" THEN DEFAULT_SCREENSHOT_PATH ELSE NoPath
          /\ file_exists' = IF outcome = "ok" THEN TRUE ELSE file_exists
          /\ text_area' = IF outcome = "ok" THEN text_area
                          ELSE IF outcome = "save_fails" THEN MsgSaveFailed
                          ELSE MsgGrabFailed
          /\ pos' = RestoredPos(outcome)
    /\ scanPc' = "restored"
    /\ UNCHANGED <<phase, original_pos, scan_button_enabled, screenshot_label,
                   language_combo, ocr_processor, ocr_worker_thread, workers,
                   queue, settings, at_close, ocr_vars>>

\* Lines 180 and 211-216: take_screenshot returns, the scan goes on or aborts.
ScanAfterCapture ==
    /\ phase # "closed"
    /\ scanPc = "restored"
    /\ IF current_screenshot_path # NoPath /\ file_exists
       THEN /\ screenshot_label' = display_screenshot_thumbnail(file_exists)
            /\ text_area' = MsgStartingOcr
            /\ scanPc' = "ocr_start"
            /\ UNCHANGED scan_button_enabled
       ELSE ScanAborts
    /\ original_pos' = InitialPos
    /\ UNCHANGED <<phase, capture, pos, language_combo,
                   ocr_processor, current_screenshot_path, ocr_worker_thread,
                   workers, queue, settings, file_exists, at_close, ocr_vars>>

\* QThread.isRunning(): from start() until run() has returned.
isRunning(w) == workers[w].pc \in {"started", "calling", "predicting", "returning"}

\* The OCRWorker object a scan creates.
NewWorker == CHOOSE w \in WorkerIds :
                 /\ workers[w].pc = "none"
                 /\ \A v \in WorkerIds : workers[v].pc = "none" => w <= v

\* The dispatch without the safeguard of lines 219-223: a worker is created
\* and started whatever the worker in flight.
ScanDispatchWithoutSafeguard ==
    /\ phase # "closed"
    /\ scanPc = "ocr_start"
    /\ scanPc' = "idle"
    /\ \E w \in WorkerIds : workers[w].pc = "none"
    /\ ocr_worker_thread' = NewWorker
    /\ workers' = [workers EXCEPT ![NewWorker] =
                       [Unborn EXCEPT !.pc = "started"]]
    /\ settings' = [settings EXCEPT
                       !.last_screenshot_path = current_screenshot_path]
    /\ UNCHANGED <<phase, original_pos, capture, pos, text_area, screenshot_label,
                   language_combo, ocr_processor, current_screenshot_path, queue,
                   file_exists, at_close, ocr_vars, scan_button_enabled>>

\* Lines 218-231: the safeguard, then the worker is created and started.
ScanDispatch ==
    /\ phase # "closed"
    /\ scanPc = "ocr_start"
    /\ scanPc' = "idle"
    /\ IF ocr_worker_thread # NoWorker /\ isRunning(ocr_worker_thread)
       THEN /\ scan_button_enabled' = TRUE
            /\ UNCHANGED <<ocr_worker_thread, workers, settings>>
       ELSE /\ \E w \in WorkerIds : workers[w].pc = "none"
            /\ ocr_worker_thread' = NewWorker
            /\ workers' = [workers EXCEPT ![NewWorker] =
                               [Unborn EXCEPT !.pc = "started"]]
            /\ settings' = [settings EXCEPT
                               !.last_screenshot_path = current_screenshot_path]
            /\ UNCHANGED scan_button_enabled
    /\ UNCHANGED <<phase, original_pos, capture, pos, text_area, screenshot_label,
                   language_combo, ocr_processor, current_screenshot_path, queue,
                   file_exists, at_close, ocr_vars>>

\* on_ocr_completed on the result signal also re-enables the trigger and
\* forgets the worker, instead of waiting for the thread to finish.
on_ocr_completed_reenabling(text_or_error) ==
    /\ text_area' = text_or_error
    /\ scan_button_enabled' = TRUE
    /\ ocr_worker_thread' = NoWorker

\* on_ocr_completed(text_or_error), lines 237-239.
on_ocr_completed(text_or_error) ==
    /\ text_area' = text_or_error
    /\ UNCHANGED <<scan_button_enabled, ocr_worker_thread>>

\* on_ocr_thread_finished without its setEnabled(True).
on_ocr_thread_finished_leaving_trigger ==
    /\ ocr_worker_thread' = NoWorker
    /\ UNCHANGED <<text_area, scan_button_enabled>>

\* on_ocr_thread_finished, lines 241-246.
on_ocr_thread_finished ==
    /\ scan_button_enabled' = TRUE
    /\ ocr_worker_thread' = NoWorker
    /\ UNCHANGED text_area

\* The UI thread delivers the queued ocr_finished signal of a worker.
DeliverOcrFinished ==
    /\ phase # "closed"
    /\ queue # <<>>
    /\ Head(queue).sig = "ocr_finished"
    /\ on_ocr_completed(Head(queue).text)
    /\ workers' = [workers EXCEPT ![Head(queue).worker].delivered = @ + 1]
    /\ queue' = Tail(queue)
    /\ UNCHANGED <<phase, scanPc, original_pos, capture, pos, screenshot_label,
                   language_combo, ocr_processor, current_screenshot_path,
                   settings, file_exists, at_close, ocr_vars>>

\* The UI thread delivers the queued finished signal of a thread, which is
\* then gone.
DeliverThreadFinished ==
    /\ phase # "closed"
    /\ queue # <<>>
    /\ Head(queue).sig = "finished"
    /\ on_ocr_thread_finished
    /\ workers' = [workers EXCEPT ![Head(queue).worker] = Unborn]
    /\ queue' = Tail(queue)
    /\ UNCHANGED <<phase, scanPc, original_pos, capture, pos, screenshot_label,
                   language_combo, ocr_processor, current_screenshot_path,
                   settings, file_exists, at_close, ocr_vars>>

\* closeEvent without the else branch of lines 282-284: a path persisted
\* earlier stays when there is no valid screenshot.
closeEventKeepingPath ==
    settings' =
        [geometry |-> pos,
         language |-> language_combo,
         last_screenshot_path |->
             IF current_screenshot_path # NoPath /\ file_exists
             THEN current_screenshot_path ELSE settings.last_screenshot_path]

\* closeEvent, lines 276-286: the user closes the window.
closeEvent ==
    settings' =
        [geometry |-> pos,
         language |-> language_combo,
         last_screenshot_path |->
             IF current_screenshot_path # NoPath /\ file_exists
             THEN current_screenshot_path ELSE Absent]

Close ==
    /\ phase = "running"
    /\ closeEvent
    /\ phase' = "closing"
    /\ at_close' = [closed |-> TRUE, pos |-> pos, language |-> language_combo,
                    path |-> current_screenshot_path]
    /\ UNCHANGED <<scanPc, original_pos, capture, pos, scan_button_enabled,
                   text_area, screenshot_label, language_combo, ocr_processor,
                   current_screenshot_path, ocr_worker_thread, workers, queue,
                   file_exists, ocr_vars>>

\* Lines 291-292: app.exec() returns once the handler that was running has
\* returned, and the process ends with its threads.
Exit ==
    /\ phase = "closing"
    /\ scanPc = "idle"
    /\ phase' = "closed"
    /\ workers' = [w \in WorkerIds |-> Unborn]
    /\ ocr_worker_thread' = NoWorker
    /\ queue' = <<>>
    /\ UNCHANGED <<scanPc, original_pos, capture, pos, scan_button_enabled,
                   text_area, screenshot_label, language_combo, ocr_processor,
                   current_screenshot_path, settings, file_exists, at_close,
                   ocr_vars>>

\* The application is launched again: lines 59-71 with the stored settings.
Restart ==
    /\ phase = "closed"
    /\ phase' = "running"
    /\ scanPc' = "idle"
    /\ original_pos' = InitialPos
    /\ capture' = "none"
    /\ pos' = LoadedPos(settings)
    /\ scan_button_enabled' = TRUE
    /\ text_area' = MsgPlaceholder
    /\ screenshot_label' = LoadedLabel(settings, file_exists)
    /\ language_combo' = LoadedLanguage(settings)
    /\ ocr_processor' = LoadedProcessor(settings)
    /\ current_screenshot_path' = LoadedPath(settings, file_exists)
    /\ at_close' = NotClosed
    /\ UNCHANGED <<ocr_worker_thread, workers, queue, settings, file_exists,
                   ocr_vars>>

(***************************************************************************)
(* OCRWorker.run, on its own thread.                                       *)
(***************************************************************************)
Emit(w, text) == Append(queue, [sig |-> "ocr_finished", worker |-> w, text |-> text])

\* Lines 48-55: what run() emits for what process_image did.
RunEmits(ret) ==
    IF ret.raised THEN MsgCritical
    ELSE IF ret.value.some THEN OcrText(ret.value.text)
    ELSE MsgNoText

\* run() without the return of line 45: after the error message it goes on
\* to process_image.
WorkerRunStartsWithoutReturn(w) ==
    /\ workers[w].pc = "started"
    /\ workers' = [workers EXCEPT ![w].pc = "calling"]
    /\ queue' = IF file_exists THEN queue ELSE Emit(w, MsgBadPath)
    /\ UNCHANGED <<phase, scanPc, original_pos, capture, pos, scan_button_enabled,
                   text_area, screenshot_label, language_combo, ocr_processor,
                   current_screenshot_path, ocr_worker_thread, settings,
                   file_exists, at_close, ocr_vars>>

\* Lines 42-45: run() starts and looks for the file.
WorkerRunStarts(w) ==
    /\ workers[w].pc = "started"
    /\ IF file_exists
       THEN /\ workers' = [workers EXCEPT ![w].pc = "calling"]
            /\ UNCHANGED queue
       ELSE /\ workers' = [workers EXCEPT ![w].pc = "returning"]
            /\ queue' = Emit(w, MsgBadPath)
    /\ UNCHANGED <<phase, scanPc, original_pos, capture, pos, scan_button_enabled,
                   text_area, screenshot_label, language_combo, ocr_processor,
                   current_screenshot_path, ocr_worker_thread, settings,
                   file_exists, at_close, ocr_vars>>

\* process_image lines 47-57: the guards, then predict() is called on the
\* engine instance the processor holds at that moment.
WorkerCallsPredict(w) ==
    /\ workers[w].pc = "calling"
    /\ IF file_exists
       THEN /\ workers' = [workers EXCEPT
                               ![w].pc = "predicting",
                               ![w].engine_lang = ocr_processor.ocr_instance.lang]
            /\ UNCHANGED queue
       ELSE /\ workers' = [workers EXCEPT ![w].pc = "returning"]
            /\ queue' = Emit(w, RunEmits(process_image(TRUE, FALSE, PredictNone)))
    /\ UNCHANGED <<phase, scanPc, original_pos, capture, pos, scan_button_enabled,
                   text_area, screenshot_label, language_combo, ocr_processor,
                   current_screenshot_path, ocr_worker_thread, settings,
                   file_exists, at_close, ocr_vars>>

\* process_image lines 57-117 and run() lines 48-55: predict() ends, the
\* result is parsed and emitted.
WorkerPredictReturns(w) ==
    /\ workers[w].pc = "predicting"
    /\ \E prediction \in AppPredictions :
          queue' = Emit(w, RunEmits(process_image(TRUE, TRUE, prediction)))
    /\ workers' = [workers EXCEPT ![w].pc = "returning"]
    /\ UNCHANGED <<phase, scanPc, original_pos, capture, pos, scan_button_enabled,
                   text_area, screenshot_label, language_combo, ocr_processor,
                   current_screenshot_path, ocr_worker_thread, settings,
                   file_exists, at_close, ocr_vars>>

\* run() returns: QThread emits finished and the thread ends.
WorkerRunReturns(w) ==
    /\ workers[w].pc = "returning"
    /\ workers' = [workers EXCEPT ![w].pc = "finished"]
    /\ queue' = Append(queue, [sig |-> "finished", worker |-> w, text |-> MsgPlaceholder])
    /\ UNCHANGED <<phase, scanPc, original_pos, capture, pos, scan_button_enabled,
                   text_area, screenshot_label, language_combo, ocr_processor,
                   current_screenshot_path, ocr_worker_thread, settings,
                   file_exists, at_close, ocr_vars>>

WorkerStep ==
    \E w \in WorkerIds :
        \/ WorkerRunStarts(w)
        \/ WorkerCallsPredict(w)
        \/ WorkerPredictReturns(w)
        \/ WorkerRunReturns(w)

\* The steps of scan_screen_and_process after the click.
ScanStep ==
    \/ TakeScreenshotBegins
    \/ TakeScreenshotGrabs
    \/ ScanAfterCapture
    \/ ScanDispatch

Next ==
    \/ LanguageChange
    \/ MoveWindow
    \/ DeleteFile
    \/ ScanClicked
    \/ TakeScreenshotBegins
    \/ TakeScreenshotGrabs
    \/ ScanAfterCapture
    \/ ScanDispatch
    \/ DeliverOcrFinished
    \/ DeliverThreadFinished
    \/ Close
    \/ Exit
    \/ Restart
    \/ \E w \in WorkerIds : WorkerRunStarts(w)
    \/ \E w \in WorkerIds : WorkerCallsPredict(w)
    \/ \E w \in WorkerIds : WorkerPredictReturns(w)
    \/ \E w \in WorkerIds : WorkerRunReturns(w)

Spec == Init /\ [][Next]_vars

\* The event loop of the UI thread delivers what is queued and lets the scan
\* handler go on after each of its waits; the worker thread is scheduled and
\* predict() returns.
LiveSpec ==
    /\ Spec
    /\ WF_vars(ScanStep)
    /\ WF_vars(DeliverOcrFinished)
    /\ WF_vars(DeliverThreadFinished)
    /\ WF_vars(WorkerStep)

(***************************************************************************)
(* scan_screen_and_process called while the trigger is disabled.  The      *)
(* button cannot do it (a disabled button emits no click), so under Spec   *)
(* the safeguard of lines 219-223 is never entered; the slot is a public   *)
(* method, and SpecSecondScan adds its direct call (a shortcut, a test, a  *)
(* caller added later) to see what the safeguard does.                     *)
(***************************************************************************)
ScanInvoked ==
    /\ phase = "running"
    /\ scanPc = "idle"
    /\ ~scan_button_enabled
    /\ text_area' = MsgTaking
    /\ scanPc' = "pre"
    /\ capture' = "none"
    /\ UNCHANGED <<phase, original_pos, pos, scan_button_enabled, screenshot_label,
                   language_combo, ocr_processor, current_screenshot_path,
                   ocr_worker_thread, workers, queue, settings, file_exists,
                   at_close, ocr_vars>>

\* The scans and the workers alone: no language change, no drag, no close.
NextSecondScan ==
    \/ ScanClicked
    \/ ScanInvoked
    \/ ScanStep
    \/ DeliverOcrFinished
    \/ DeliverThreadFinished
    \/ WorkerStep

SpecSecondScan == Init /\ [][NextSecondScan]_vars

(***************************************************************************)
(* The adapter and the language slot on their own: set_language and        *)
(* on_language_change are called with any argument, a name the combo box   *)
(* does not hold included, and each call is recorded.                      *)
(***************************************************************************)
LanguageCodes == {AVAILABLE_LANGUAGES[name] : name \in DOMAIN AVAILABLE_LANGUAGES}

\* Display names that are not supported.
StaleNames == {"Klingon", ""}

Recorded(op, arg, built, raised, constructed) ==
    [n |-> lang_call.n + 1, op |-> op, arg |-> arg, built |-> built,
     before |-> [current_lang |-> ocr_processor.current_lang,
                 ocr_instance |-> ocr_processor.ocr_instance,
                 language |-> settings.language],
     raised |-> raised, constructed |-> constructed]

adapter_frame ==
    <<phase, scanPc, original_pos, capture, pos, scan_button_enabled, text_area,
      screenshot_label, language_combo, current_screenshot_path,
      ocr_worker_thread, workers, queue, file_exists, at_close, pi_in, pi_out>>

InitAdapter ==
    /\ settings \in InitialSettings
    /\ file_exists = FALSE
    /\ Launched(settings, file_exists)
    /\ pi_in = NoCall
    /\ pi_out = Pending
    /\ lang_call = NoLangCall

\* ocr_processor.set_language(lang)
SetLanguageCall ==
    /\ lang_call.n < MaxLangCalls
    /\ \E lang \in LanguageCodes, built \in BOOLEAN :
          LET r == set_language(ocr_processor, lang, built)
          IN  /\ ocr_processor' = [current_lang |-> r.current_lang,
                                   ocr_instance |-> r.ocr_instance]
              /\ lang_call' = Recorded("set_language", lang, built, r.raised,
                                       r.constructed)
    /\ UNCHANGED <<settings, adapter_frame>>

\* on_language_change(name), called with any string.
OnLanguageChangeCall ==
    /\ lang_call.n < MaxLangCalls
    /\ \E name \in DOMAIN AVAILABLE_LANGUAGES \cup StaleNames, built \in BOOLEAN :
          /\ on_language_change(name, built)
          /\ lang_call' = Recorded("on_language_change", name, built,
                                   on_language_change_raises(name, built),
                                   ocr_processor'.ocr_instance # ocr_processor.ocr_instance)
    /\ UNCHANGED adapter_frame

NextAdapter == SetLanguageCall \/ OnLanguageChangeCall

SpecAdapter == InitAdapter /\ [][NextAdapter]_vars

(***************************************************************************)
(* One call of process_image on its own: the engine's result is built one  *)
(* result object and one line at a time, then process_image is applied.    *)
(***************************************************************************)
InitOCR ==
    /\ settings = EmptySettings
    /\ file_exists = FALSE
    /\ Launched(settings, file_exists)
    /\ pi_in \in {NoCall} \cup
                 {[exists |-> TRUE, prediction |-> p] :
                      p \in {PredictRaises, PredictNone, PredictList(<<>>)}}
    /\ pi_out = Pending
    /\ lang_call = NoLangCall

\* The engine's result grows by one result object of any shape.
EngineAddsObject ==
    /\ ~pi_out.done
    /\ pi_in.exists
    /\ pi_in.prediction.kind = "list"
    /\ ResultSize(pi_in.prediction.results) < MaxResultSize
    /\ \E sh \in Shapes :
           pi_in' = [pi_in EXCEPT !.prediction.results =
                                      Append(@, ResultObject(sh, <<>>))]
    /\ UNCHANGED <<pi_out, lang_call, app_vars>>

\* The engine's last result object grows by one line.
EngineAddsLine ==
    /\ ~pi_out.done
    /\ pi_in.prediction.results # <<>>
    /\ ResultSize(pi_in.prediction.results) < MaxResultSize
    /\ LET n == Len(pi_in.prediction.results)
           last == pi_in.prediction.results[n]
       IN  \E v \in LineValues(last.shape) :
               pi_in' = [pi_in EXCEPT !.prediction.results[n].lines = Append(@, v)]
    /\ UNCHANGED <<pi_out, lang_call, app_vars>>

ProcessImageCall ==
    /\ ~pi_out.done
    /\ pi_out' = [done |-> TRUE,
                  ret |-> process_image(TRUE, pi_in.exists, pi_in.prediction)]
    /\ UNCHANGED <<pi_in, lang_call, app_vars>>

NextOCR == EngineAddsObject \/ EngineAddsLine \/ ProcessImageCall

SpecOCR == InitOCR /\ [][NextOCR]_vars

(***************************************************************************)
(* Claims about process_image, checked under SpecOCR.                      *)
(***************************************************************************)
Results == pi_in.prediction.results

Ret == pi_out.ret

RecognitionRan == pi_out.done /\ pi_in.exists /\ pi_in.prediction.kind = "list"

HasNonBlank(s) == \E i \in 1..Len(s) : s[i] \notin {" ", NL}

\* An engine-side fault: predict() raised, or reading a result object raised.
EngineFault ==
    /\ pi_in.exists
    /\ \/ pi_in.prediction.kind = "raises"
       \/ \E i \in 1..Len(Results) : Results[i].shape = "json_raises"

RECURSIVE OffsetOf(_, _, _)
OffsetOf(parts, sep, i) ==
    IF i = 1 THEN 0
    ELSE OffsetOf(parts, sep, i - 1) + Len(parts[i - 1]) + Len(sep)

\* text is the parts in order, with sep between two neighbours and nowhere else.
IsJoinOf(text, parts, sep) ==
    /\ parts # <<>>
    /\ Len(text) = OffsetOf(parts, sep, Len(parts)) + Len(parts[Len(parts)])
    /\ \A i \in 1..Len(parts) :
          LET off == OffsetOf(parts, sep, i)
          IN  /\ SubSeq(text, off + 1, off + Len(parts[i])) = parts[i]
              /\ i < Len(parts) =>
                    SubSeq(text, off + Len(parts[i]) + 1,
                           off + Len(parts[i]) + Len(sep)) = sep

\* The lines a result object yields: by the structured strategy if it yields
\* any, else by the legacy one.
YieldedLines(res_obj) ==
    IF res_obj.shape = "rec_texts" THEN MeaningfulTexts(res_obj)
    ELSE IF res_obj.shape = "list" THEN LegacyTexts(res_obj)
    ELSE <<>>

Yielding == SelectSeq(Results, LAMBDA o : YieldedLines(o) # <<>>)

\* The parts glued from the left, sep between neighbours.
RECURSIVE Glue(_, _)
Glue(parts, sep) ==
    IF Len(parts) = 1 THEN parts[1]
    ELSE Glue(SubSeq(parts, 1, Len(parts) - 1), sep) \o sep \o parts[Len(parts)]

\* The text of each yielding result object: its lines with "\n" between.
RegionTexts == [i \in 1..Len(Yielding) |-> Glue(YieldedLines(Yielding[i]), <<NL>>)]

\* C7: when result objects yield text, process_image returns the texts of the
\* yielding objects in order joined with "\n---\n", each text being the
\* object's lines joined with "\n"; an object that yields no text adds
\* neither text nor separator.
C7_RegionsJoinedWithSeparator ==
    (RecognitionRan /\ Yielding # <<>>) =>
        /\ Ret.value.some
        /\ IsJoinOf(Ret.value.text, RegionTexts, <<NL, "-", "-", "-", NL>>)
        /\ \A i \in 1..Len(Yielding) :
              IsJoinOf(RegionTexts[i], YieldedLines(Yielding[i]), <<NL>>)

\* Two result objects yield text, the first one two lines.
C7_Witness ==
    /\ RecognitionRan
    /\ Len(Yielding) = 2
    /\ Len(YieldedLines(Yielding[1])) = 2
    /\ Ret.value.some

\* The lines of a text: what stands between its line breaks.
RECURSIVE SplitLines(_)
SplitLines(text) ==
    IF \A i \in 1..Len(text) : text[i] # NL THEN <<text>>
    ELSE LET k == CHOOSE i \in 1..Len(text) :
                      text[i] = NL /\ \A j \in 1..(i - 1) : text[j] # NL
         IN  <<SubSeq(text, 1, k - 1)>> \o SplitLines(SubSeq(text, k + 1, Len(text)))

\* Every fragment of every result object is empty or blank.
OnlyBlankFragments ==
    \A i \in 1..Len(Results) :
        \A j \in 1..Len(Results[i].lines) : ~HasNonBlank(Results[i].lines[j].s)

\* C8: when every fragment of every result object is empty or blank, in the
\* rec_texts shape or in the list shape, process_image returns None; and no
\* line of a returned text is empty or blank.
C8_BlankFragmentsDiscarded ==
    RecognitionRan =>
        /\ (OnlyBlankFragments => Ret.value = None)
        /\ (Ret.value.some =>
              \A k \in 1..Len(SplitLines(Ret.value.text)) :
                  HasNonBlank(SplitLines(Ret.value.text)[k]))

\* A rec_texts object and a list object, each holding a blank fragment only.
C8_Witness ==
    /\ RecognitionRan
    /\ OnlyBlankFragments
    /\ \E i, j \in 1..Len(Results) :
          /\ Results[i].shape = "rec_texts" /\ Results[i].lines = <<StrLine(<<" ">>)>>
          /\ Results[j].shape = "list" /\ Results[j].lines = <<StrLine(<<" ">>)>>
    /\ Ret.value = None

(***************************************************************************)
(* Claims about the application, checked under Spec and LiveSpec.          *)
(***************************************************************************)
ActiveWorkers == {w \in WorkerIds : isRunning(w)}

\* C1: in every reachable state at most one OCR worker thread is running.
C1_AtMostOneWorker == Cardinality(ActiveWorkers) <= 1

\* A worker recognises with the Japanese engine: a language change and a
\* scan came before.
C1_Witness ==
    \E w \in WorkerIds : workers[w].pc = "predicting" /\ workers[w].engine_lang = "japan"

\* C2: after any sequence of language selections the processor's language
\* code and the language of its engine instance are the code of the display
\* name the combo box shows.
C2_EngineReflectsSelection ==
    phase = "running" =>
        /\ ocr_processor.current_lang = AVAILABLE_LANGUAGES[language_combo]
        /\ ocr_processor.ocr_instance.lang = AVAILABLE_LANGUAGES[language_combo]

CaptureFailures == {"no_screen", "grab_raises", "save_fails"}

\* C4: once a scan whose capture failed has returned, the text area reports
\* the failure, the trigger is enabled, and no worker was created or started.
C4_CaptureFailureEndsScan ==
    (scanPc = "idle" /\ capture \in CaptureFailures) =>
        /\ scan_button_enabled
        /\ text_area = MsgAborted
        /\ screenshot_label = [text |-> "Screenshot failed.", pixmap |-> "none"]
        /\ \A w \in WorkerIds : workers[w].pc = "none"
        /\ ocr_worker_thread = NoWorker
        /\ queue = <<>>

C4_Witness ==
    scanPc = "idle" /\ capture = "save_fails" /\ scan_button_enabled /\ phase = "running"

\* C5: whenever the trigger is disabled it is enabled again later, on every
\* outcome of the capture and of the worker, as long as the process lives
\* (after the process has exited there is no event loop left to schedule).
C5_TriggerReenabled ==
    (~scan_button_enabled /\ phase # "closed") ~> (scan_button_enabled \/ phase = "closed")

\* The text of a finished OCR is shown and the trigger is enabled again.
C5_Witness ==
    phase = "running" /\ scan_button_enabled /\ text_area.msg = "ocr text"

\* C6: whenever a worker calls predict(), the engine instance it calls is
\* configured with the code of the language selected at that moment.
C6_PredictUsesSelectedLanguage ==
    [][\A w \in WorkerIds :
          (workers[w].pc = "calling" /\ workers'[w].pc = "predicting")
              => workers'[w].engine_lang = AVAILABLE_LANGUAGES[language_combo]]_vars

\* C9: a launch that follows a shutdown shows the window where it was, the
\* language that was selected, and the thumbnail of the screenshot that was
\* current if its file still exists; if the file does not exist the label
\* shows the text that stands for no screenshot.
C9_SettingsRoundTrip ==
    [][(phase = "closed" /\ phase' = "running") =>
          /\ pos' = at_close.pos
          /\ language_combo' = at_close.language
          /\ (at_close.path # NoPath /\ file_exists') =>
                /\ screenshot_label'.pixmap = "thumbnail"
                /\ current_screenshot_path' = at_close.path
          /\ ~file_exists' =>
                /\ screenshot_label'.pixmap # "thumbnail"
                /\ screenshot_label'.text = "Take a new screenshot."]_vars

\* C10: take_screenshot leaves the window where it was when it was entered,
\* when there is no primary screen (it returns at once) and when it returns
\* after the grab, the save or an exception.
C10_WindowRestored ==
    [][/\ (scanPc = "pre" /\ scanPc' = "idle") => pos' = pos
       /\ (scanPc = "restored" /\ scanPc' # "restored") =>
              (pos = original_pos /\ pos' = original_pos)]_vars

\* The grab raised and the window is back where it was.
C10_Witness ==
    /\ scanPc = "restored"
    /\ capture = "grab_raises"
    /\ pos = original_pos
    /\ pos # OFF_SCREEN

(***************************************************************************)
(* Claims about a second scan, checked under SpecSecondScan.               *)
(***************************************************************************)
InFlight == ocr_worker_thread # NoWorker /\ isRunning(ocr_worker_thread)

Starts(w) == workers[w].pc = "none" /\ workers'[w].pc # "none"

\* C11: when a scan reaches the start of OCR while a worker is in flight, no
\* worker is created, the worker in flight stays the one the window holds
\* and stays where it is, nothing is queued, the trigger is enabled and the
\* handler has returned; and a worker is created only by a scan that reaches
\* the start of OCR while no worker is in flight, so the rejected scan is
\* never run later.
C11_SecondOcrRejected ==
    [][/\ (scanPc = "ocr_start" /\ scanPc' # "ocr_start" /\ InFlight) =>
              /\ workers' = workers
              /\ ocr_worker_thread' = ocr_worker_thread
              /\ queue' = queue
              /\ settings' = settings
              /\ scan_button_enabled'
              /\ scanPc' = "idle"
       /\ \A w \in WorkerIds :
              Starts(w) => (scanPc = "ocr_start" /\ ~InFlight /\ workers'[w].pc = "started"
                            /\ ocr_worker_thread' = w)]_vars

\* A second scan was rejected: the handler has returned, the trigger is
\* enabled and the worker in flight is still recognising.
C11_Witness ==
    /\ scanPc = "idle"
    /\ capture = "ok"
    /\ scan_button_enabled
    /\ InFlight
    /\ workers[ocr_worker_thread].pc = "predicting"
    /\ \A w \in WorkerIds \ {ocr_worker_thread} : workers[w].pc = "none"

(***************************************************************************)
(* Further claims about the application, checked under Spec and LiveSpec.  *)
(***************************************************************************)
\* A worker from start() until its finished notification has been handled.
Active(w) == workers[w].pc # "none"

\* C12: in every reachable state in which a worker is active (started, its
\* finished notification not yet handled) the scan trigger is disabled.
C12_TriggerDisabledWhileWorkerActive ==
    \A w \in WorkerIds : Active(w) => ~scan_button_enabled

\* The result of a worker is shown, its thread has ended, and its finished
\* notification is still queued.
C12_Witness ==
    /\ \E w \in WorkerIds : workers[w].pc = "finished"
    /\ text_area.msg = "ocr text"
    /\ ~scan_button_enabled

Recognising == \E w \in WorkerIds : workers[w].pc = "predicting"

\* take_screenshot saves the pixmap to the screenshot file.
FileWritten == scanPc = "moved" /\ scanPc' = "restored" /\ capture' = "ok"

\* C13: while a worker's predict() is in progress the UI thread neither
\* replaces the engine instance of the processor nor writes the screenshot
\* file.
C13_NoWriteWhileRecognising ==
    [][Recognising =>
          /\ ocr_processor'.ocr_instance = ocr_processor.ocr_instance
          /\ ~FileWritten]_vars

\* The result strings of worker w that wait in the queue.
QueuedResults(w) ==
    Len(SelectSeq(queue, LAMBDA m : m.sig = "ocr_finished" /\ m.worker = w))

CallReturned(w) == workers[w].pc \in {"returning", "finished"}

\* C14: for each worker a scan has dispatched, on_ocr_completed receives one
\* result string and no more, on the UI thread: none is emitted or received
\* before process_image has returned (or run() has found the file missing),
\* exactly one has been emitted once it has, when the finished notification
\* is handled the string has been received, and whatever the outcome the
\* string is received in the end, as long as the process lives.
C14_OneResultPerScan ==
    /\ [](\A w \in WorkerIds :
             /\ workers[w].delivered + QueuedResults(w) =
                    (IF CallReturned(w) THEN 1 ELSE 0)
             /\ workers[w].delivered <= 1)
    /\ [][\A w \in WorkerIds :
             (workers[w].pc = "finished" /\ workers'[w].pc = "none" /\ phase' # "closed")
                 => workers[w].delivered = 1]_vars
    /\ \A w \in WorkerIds :
           (workers[w].pc = "started")
               ~> (workers[w].delivered = 1 \/ phase = "closed")

\* The generic message of an absent result has been received, once.
C14_Witness ==
    /\ \E w \in WorkerIds : workers[w].delivered = 1
    /\ text_area = MsgNoText

(***************************************************************************)
(* Claims about the adapter and the language slot, checked under           *)
(* SpecAdapter.                                                            *)
(***************************************************************************)
\* C15: after on_language_change with a name that is not supported, the
\* processor (language code and engine instance) and the persisted language
\* are what they were before the call, and the call did not raise.
C15_UnknownNameChangesNothing ==
    (lang_call.op = "on_language_change"
         /\ lang_call.arg \notin DOMAIN AVAILABLE_LANGUAGES) =>
        /\ ocr_processor.current_lang = lang_call.before.current_lang
        /\ ocr_processor.ocr_instance = lang_call.before.ocr_instance
        /\ settings.language = lang_call.before.language
        /\ ~lang_call.raised

\* The slot was called with "Klingon" while French was configured.
C15_Witness ==
    /\ lang_call.op = "on_language_change"
    /\ lang_call.arg = "Klingon"
    /\ ocr_processor.current_lang = "fr"
    /\ settings.language = "French"

IsSetLanguage == lang_call.op = "set_language"

\* C16: set_language(code) with the configured code calls PaddleOCR(...) not
\* at all and leaves the processor as it was; with another code it calls
\* PaddleOCR(lang=code) and, when that returns, holds the new instance
\* configured with code; a call repeated with the same code right after
\* builds nothing.
C16_SetLanguageRebuildsOnlyOnChange ==
    /\ [](IsSetLanguage =>
            IF lang_call.arg = lang_call.before.current_lang
            THEN /\ ~lang_call.constructed
                 /\ ~lang_call.raised
                 /\ ocr_processor.current_lang = lang_call.before.current_lang
                 /\ ocr_processor.ocr_instance = lang_call.before.ocr_instance
            ELSE /\ lang_call.constructed
                 /\ ocr_processor.current_lang = lang_call.arg
                 /\ lang_call.built =>
                        /\ ~lang_call.raised
                        /\ ocr_processor.ocr_instance.lang = lang_call.arg)
    /\ [][(IsSetLanguage /\ lang_call'.op = "set_language"
             /\ lang_call'.n = lang_call.n + 1 /\ lang_call'.arg = lang_call.arg)
              => ~lang_call'.constructed]_vars

\* set_language("japan") was called twice in a row: the first call built the
\* engine, the second built nothing.
C16_Witness ==
    /\ IsSetLanguage
    /\ lang_call.n >= 2
    /\ lang_call.arg = "japan"
    /\ lang_call.before.current_lang = "japan"
    /\ lang_call.before.ocr_instance = PaddleOCR("japan")
    /\ ~lang_call.constructed
    /\ ocr_processor.ocr_instance = PaddleOCR("japan")

\* C20: in every reachable state of the adapter, current_lang is the
\* language the engine instance it holds was constructed with.
C20_CurrentLangIsEngineLang ==
    ocr_processor.current_lang = ocr_processor.ocr_instance.lang

(***************************************************************************)
(* Claims about startup and shutdown, checked under Spec.                  *)
(***************************************************************************)
\* The language the window shows and the adapter has, against the persisted
\* value.
StartedWithLanguage(combo, proc, persisted) ==
    /\ combo \in DOMAIN AVAILABLE_LANGUAGES
    /\ combo = IF persisted \in DOMAIN AVAILABLE_LANGUAGES
               THEN persisted ELSE DEFAULT_LANGUAGE
    /\ proc.current_lang = AVAILABLE_LANGUAGES[combo]
    /\ proc.ocr_instance.lang = AVAILABLE_LANGUAGES[combo]

\* C17: after every launch, the first and each one after a shutdown, the
\* selected name is the persisted one if it is supported and the default
\* otherwise (absent or stale), and the adapter's language code and engine are
\* those of the selected name.
C17_StartupLanguage ==
    /\ StartedWithLanguage(language_combo, ocr_processor, settings.language)
    /\ [][(phase = "closed" /\ phase' = "running") =>
             StartedWithLanguage(language_combo', ocr_processor', settings.language)]_vars

\* A launch has found the stale name and fallen back to the default.
C17_Witness ==
    /\ phase = "running"
    /\ settings.language = "Klingon"
    /\ language_combo = DEFAULT_LANGUAGE
    /\ ocr_processor.current_lang = "en"

\* C18: when closeEvent returns, the persisted last-screenshot path is the
\* current screenshot path if that path is set and its file exists, and the
\* key is absent otherwise, whatever an earlier scan persisted at dispatch.
C18_PersistedPathAtShutdown ==
    [][(phase = "running" /\ phase' = "closing") =>
          settings'.last_screenshot_path =
              IF current_screenshot_path # NoPath /\ file_exists
              THEN current_screenshot_path
              ELSE Absent]_vars

\* The window was closed after a scan whose save failed; the file of an
\* earlier scan, whose dispatch persisted the path, still exists, and the key
\* is gone.
C18_Witness ==
    /\ phase = "closing"
    /\ scanPc = "idle"
    /\ capture = "save_fails"
    /\ at_close.path = NoPath
    /\ file_exists
    /\ settings.last_screenshot_path = Absent

\* A queued signal of a worker is handled by the window.
CallbackDelivered == queue # <<>> /\ queue' = Tail(queue) /\ phase' # "closed"

\* C19: when the window is closed while a worker is active, no worker is
\* running any more when the process exits, and no completion or finished
\* callback of a worker is delivered to the window after it was closed.
C19_WorkerJoinedAtShutdown ==
    [][/\ (phase = "closing" /\ phase' = "closed") =>
              \A w \in WorkerIds : ~isRunning(w)
       /\ CallbackDelivered => phase = "running"]_vars
====
